---- MODULE Spec2Model ----
(***************************************************************************)
(* Model of the Mastodon mentions bot (src/mastodonbot.py) and of the      *)
(* plugin interface (src/plugins/example_plugin.py).                       *)
(*                                                                         *)
(* Processes: the command line invocations (start, stop, restart, status)  *)
(* and the daemon processes they fork.  Every daemon has a main thread     *)
(* (start(), then _stop() when it is called), the mention thread           *)
(* (_process_mentions) and the stream thread (_stream_mentions).           *)
(* The Mastodon client, the Apprise sink and the plugin directory are the  *)
(* environment: their outcomes are nondeterministic choices.               *)
(***************************************************************************)
EXTENDS Integers, Sequences, FiniteSets, TLC

\* ------------------------------------------------------------- bounds
MaxDaemons == 2      \* daemon processes that can be forked
MaxCmds == 2         \* command line invocations
MaxMentions == 2     \* mention events the server delivers
MaxEdits == 1        \* changes of the plugin directory while running

Daemons == 1..MaxDaemons
Cmds == 1..MaxCmds
Mentions == 1..MaxMentions

\* queue.put(None): the sentinel; mentions are numbered from 1
Sentinel == 0

\* what a *.py file of the plugin folder can be
\*   "prop"    defines MastodonBotPlugin, is_available is a read-only property
\*   "attr"    defines MastodonBotPlugin, is_available is a plain attribute
\*   "noclass" executes, defines no MastodonBotPlugin
\*   "execerr" raises while exec_module runs it (or in the constructor)
\*   "private" its name starts with "_"
FileKinds == {"prop", "attr", "noclass", "execerr", "private"}

\* the plugin folders considered, each in glob order
Dirs ==
  { <<"attr", "prop">>,
    <<"prop", "attr">>,
    <<"private", "noclass", "attr">>,
    <<"execerr", "attr">> }

\* what Apprise.notify returns
AppriseResults == {"None", "False", "True"}

VARIABLES
  pidfile,      \* PIDFILE: << >> when absent, <<pid>> when it records pid
  dir,          \* the plugin folder: sequence of file kinds in glob order
  edits,        \* number of changes made to the plugin folder
  cli,          \* command line invocations: [kind, pc, out, child, sigterm,
                \*   healed]; healed: its is_running() removed a stale PID file
  daemon,       \* daemon process: "none", "alive", "exited", "killed"
  sigterm,      \* SIGTERM disposition of each daemon process
  mainPc,       \* position of the daemon's main thread
  plugins,      \* self.plugins of each daemon
  loadCount,    \* number of load_plugins calls made by each daemon
  queue,        \* self.mention_queue of each daemon
  proc,         \* mention thread: [pc, m, i]
  streamPc,     \* stream thread position
  stopReq,      \* client.stream_stop() has been called
  nextMention,  \* number of the next mention the server delivers
  notes,        \* Notifier.send calls: [msg, res]
  enq,          \* history: every item put into the queue, in order
  deq,          \* history: every mention handed to _process_mention, in order
  calls,        \* history: the _process_mention_with_plugin calls made for the
                \*   mention dequeued last, in order
  loads         \* history: every load_plugins call

vars == <<pidfile, dir, edits, cli, daemon, sigterm, mainPc, plugins, loadCount,
          queue, proc, streamPc, stopReq, nextMention, notes, enq, deq, calls,
          loads>>

cliVars == <<cli>>
fsVars == <<dir, edits>>
pipeVars == <<plugins, loadCount, queue, proc, streamPc, stopReq, nextMention,
              notes, enq, deq, calls, loads>>

\* ------------------------------------------------------------ helpers

Alive == {d \in Daemons : daemon[d] = "alive"}

\* the thread has ended (returned, or died of an uncaught exception)
ProcTerminated(d) == proc[d].pc \in {"ended", "crashed"}
StreamTerminated(d) == streamPc[d] \in {"ended", "crashed"}

\* `self.is_running` without a call: the bound method object, always truthy
is_running_attr == TRUE

\* MastodonBot.is_running(): [ret, pidfile after the call]
IsRunningOf(pf, alive) ==
  IF pf = << >> THEN [ret |-> FALSE, pidfile |-> pf]
  ELSE IF pf[1] = 0 THEN [ret |-> FALSE, pidfile |-> pf]
  ELSE IF pf[1] \notin alive THEN [ret |-> FALSE, pidfile |-> << >>]
  ELSE [ret |-> TRUE, pidfile |-> pf]

\* a faulty is_running that leaves a stale PID file in place
is_running_keepstale ==
  [ret |-> pidfile # << >> /\ pidfile[1] \in Alive, pidfile |-> pidfile]

\* a faulty is_running with the two branches of the os.kill test swapped
is_running_inverted ==
  IF pidfile = << >> THEN [ret |-> FALSE, pidfile |-> pidfile]
  ELSE IF pidfile[1] \in Alive THEN [ret |-> FALSE, pidfile |-> << >>]
  ELSE [ret |-> TRUE, pidfile |-> pidfile]

is_running == IsRunningOf(pidfile, Alive)

\* a faulty send that takes a missing sink for a failed delivery
NotifierSendNoNone(result) ==
  CASE result = "True" -> "ok"
    [] OTHER -> "failed"

\* Notifier.send(msg) for the value Apprise.notify returned
NotifierSend(result) ==
  CASE result = "None" -> "unconfigured"
    [] result = "False" -> "failed"
    [] OTHER -> "ok"

\* one call of Notifier.send as the history `notes` keeps it: the message,
\* what Apprise.notify returned, what send came to and the message that the
\* text of the raised NotifierError holds ("" when nothing was raised)
SendRecord(msg, result) ==
  [msg |-> msg, res |-> result, out |-> NotifierSend(result),
   carried |-> IF NotifierSend(result) = "ok" THEN "" ELSE msg]

\* PluginLoader._load_plugin for a file of the given kind
LoadPlugin(kind) ==
  CASE kind = "execerr" -> "raise"
    [] kind = "noclass" -> "none"
    [] OTHER -> "instance"

\* PluginLoader.load_plugins over files i.. of folder dr, generation g
RECURSIVE LoadFrom(_, _, _, _)
LoadFrom(dr, i, g, acc) ==
  IF i > Len(dr) THEN [raised |-> FALSE, plugins |-> acc]
  ELSE IF dr[i] = "private" THEN LoadFrom(dr, i + 1, g, acc)
  ELSE IF LoadPlugin(dr[i]) = "raise" THEN [raised |-> TRUE, plugins |-> << >>]
  ELSE IF LoadPlugin(dr[i]) = "none" THEN LoadFrom(dr, i + 1, g, acc)
  ELSE LoadFrom(dr, i + 1, g,
                Append(acc, [file |-> i, kind |-> dr[i], avail |-> TRUE, gen |-> g]))

load_plugins(dr, g) == LoadFrom(dr, 1, g, << >>)

\* the history entry of one load_plugins call
LoadEntry(dr, res) ==
  [dir |-> dr, raised |-> res.raised,
   files |-> [k \in 1..Len(res.plugins) |-> res.plugins[k].file]]

\* ---------------------------------------------------------------- Init

Init ==
  /\ pidfile = << >>
  /\ dir \in Dirs
  /\ edits = 0
  /\ cli = [c \in Cmds |-> [kind |-> "none", pc |-> "idle", out |-> "",
                            child |-> 0, sigterm |-> "SIG_DFL",
                            healed |-> FALSE]]
  /\ daemon = [d \in Daemons |-> "none"]
  /\ sigterm = [d \in Daemons |-> "SIG_DFL"]
  /\ mainPc = [d \in Daemons |-> "none"]
  /\ plugins = [d \in Daemons |-> << >>]
  /\ loadCount = [d \in Daemons |-> 0]
  /\ queue = [d \in Daemons |-> << >>]
  /\ proc = [d \in Daemons |-> [pc |-> "unstarted", m |-> 0, i |-> 0]]
  /\ streamPc = [d \in Daemons |-> "unstarted"]
  /\ stopReq = [d \in Daemons |-> FALSE]
  /\ nextMention = 1
  /\ notes = [d \in Daemons |-> << >>]
  /\ enq = [d \in Daemons |-> << >>]
  /\ deq = [d \in Daemons |-> << >>]
  /\ calls = [d \in Daemons |-> << >>]
  /\ loads = [d \in Daemons |-> << >>]

\* ------------------------------------------- command line invocations

\* `mastodonbot.py <kind>` is run; the invocations are numbered in the order
\* in which they are made
Invoke(c, kind) ==
  /\ cli[c].kind = "none"
  /\ \A b \in Cmds : b < c => cli[b].kind # "none"
  /\ cli' = [cli EXCEPT ![c].kind = kind,
                        ![c].pc = CASE kind = "start" -> "start"
                                    [] kind = "status" -> "status"
                                    [] OTHER -> "stop"]
  /\ UNCHANGED <<pidfile, daemon, sigterm, mainPc, fsVars, pipeVars>>

InvokeStart(c) == Invoke(c, "start")
InvokeStop(c) == Invoke(c, "stop")
InvokeStatus(c) == Invoke(c, "status")
InvokeRestart(c) == Invoke(c, "restart")

\* start(), lines 170-175: the is_running() test
CliStartCheck(c) ==
  /\ cli[c].pc = "start"
  /\ pidfile' = is_running.pidfile
  /\ cli' = IF is_running.ret
            THEN [cli EXCEPT ![c].pc = "done", ![c].out = "already"]
            ELSE [cli EXCEPT ![c].pc = "fork",
                             ![c].healed = (@ \/ is_running.pidfile # pidfile)]
  /\ UNCHANGED <<daemon, sigterm, mainPc, fsVars, pipeVars>>

\* start(), lines 178-182: os.fork(); the parent registers _stop for SIGTERM
\* and exits, the child goes on as the daemon with the default disposition
CliFork(c) ==
  /\ cli[c].pc = "fork"
  /\ \E d \in Daemons :
       /\ daemon[d] = "none"
       /\ \A e \in Daemons : e < d => daemon[e] # "none"
       /\ daemon' = [daemon EXCEPT ![d] = "alive"]
       /\ mainPc' = [mainPc EXCEPT ![d] = "forked"]
       /\ sigterm' = [sigterm EXCEPT ![d] = cli[c].sigterm]
       /\ cli' = [cli EXCEPT ![c].pc = "done", ![c].out = "forked",
                             ![c].child = d, ![c].sigterm = "_stop"]
  /\ UNCHANGED <<pidfile, fsVars, pipeVars>>

\* what SIGTERM does to daemon d: with the default disposition the process
\* ends at once (no atexit handler runs, the PID file stays); a process with
\* _stop registered gets _stop(signum, frame), a TypeError
Deliver(d) ==
  IF sigterm[d] = "SIG_DFL"
  THEN /\ daemon' = [daemon EXCEPT ![d] = "killed"]
       /\ mainPc' = mainPc
  ELSE /\ daemon' = daemon
       /\ mainPc' = [mainPc EXCEPT ![d] = "stop_raised"]

\* stop(), lines 419-423 (also the first half of restart())
CliStop(c) ==
  /\ cli[c].pc = "stop"
  /\ IF is_running.ret
     THEN /\ Deliver(pidfile[1])
          /\ pidfile' = pidfile
     ELSE /\ pidfile' = is_running.pidfile
          /\ UNCHANGED <<daemon, mainPc>>
  /\ cli' = [cli EXCEPT ![c].pc = IF cli[c].kind = "restart" THEN "sleep" ELSE "done",
                        ![c].out = IF is_running.ret THEN "signalled" ELSE "nothing",
                        ![c].healed = (@ \/ is_running.pidfile # pidfile)]
  /\ UNCHANGED <<sigterm, fsVars, pipeVars>>

\* restart(), lines 407-408: time.sleep(1), then start()
CliRestartSleep(c) ==
  /\ cli[c].pc = "sleep"
  /\ cli' = [cli EXCEPT ![c].pc = "start"]
  /\ UNCHANGED <<pidfile, daemon, sigterm, mainPc, fsVars, pipeVars>>

\* status(), lines 412-416
CliStatus(c) ==
  /\ cli[c].pc = "status"
  /\ pidfile' = is_running.pidfile
  /\ cli' = [cli EXCEPT ![c].pc = "done",
                        ![c].out = IF is_running.ret THEN "running" ELSE "not_running",
                        ![c].healed = (@ \/ is_running.pidfile # pidfile)]
  /\ UNCHANGED <<daemon, sigterm, mainPc, fsVars, pipeVars>>

\* an external SIGTERM sent to a running daemon process
SigTerm(d) ==
  /\ daemon[d] = "alive"
  /\ Deliver(d)
  /\ UNCHANGED <<pidfile, sigterm, cliVars, fsVars, pipeVars>>

\* ------------------------------------------ the daemon's main thread

\* start(), lines 187-195: the child records its pid and registers the
\* removal of the PID file at exit
StartWritePid(d) ==
  /\ daemon[d] = "alive"
  /\ mainPc[d] = "forked"
  /\ pidfile' = <<d>>
  /\ mainPc' = [mainPc EXCEPT ![d] = "pidwritten"]
  /\ UNCHANGED <<daemon, sigterm, cliVars, fsVars, pipeVars>>

\* start(), line 198: the initial load.  An exception of load_plugins leaves
\* start() and ends the process: the atexit handler removes the PID file
StartLoad(d) ==
  /\ daemon[d] = "alive"
  /\ mainPc[d] = "pidwritten"
  /\ LET res == load_plugins(dir, loadCount[d] + 1) IN
       /\ loadCount' = [loadCount EXCEPT ![d] = @ + 1]
       /\ loads' = [loads EXCEPT ![d] = Append(@, LoadEntry(dir, res))]
       /\ IF res.raised
          THEN /\ mainPc' = [mainPc EXCEPT ![d] = "start_raised"]
               /\ daemon' = [daemon EXCEPT ![d] = "exited"]
               /\ pidfile' = << >>
               /\ plugins' = plugins
          ELSE /\ mainPc' = [mainPc EXCEPT ![d] = "loaded"]
               /\ plugins' = [plugins EXCEPT ![d] = res.plugins]
               /\ UNCHANGED <<daemon, pidfile>>
  /\ UNCHANGED <<sigterm, cliVars, fsVars, queue, proc, streamPc, stopReq,
                 nextMention, notes, enq, deq, calls>>

\* start(), line 201: mention_thread.start()
StartProc(d) ==
  /\ daemon[d] = "alive"
  /\ mainPc[d] = "loaded"
  /\ proc' = [proc EXCEPT ![d].pc = "get"]
  /\ mainPc' = [mainPc EXCEPT ![d] = "procstarted"]
  /\ UNCHANGED <<pidfile, daemon, sigterm, cliVars, fsVars, plugins, loadCount,
                 queue, streamPc, stopReq, nextMention, notes, enq, deq, calls,
                 loads>>

\* start(), lines 204-210: the stream thread is started, start() returns
StartStream(d) ==
  /\ daemon[d] = "alive"
  /\ mainPc[d] = "procstarted"
  /\ streamPc' = [streamPc EXCEPT ![d] = "connecting"]
  /\ mainPc' = [mainPc EXCEPT ![d] = "started"]
  /\ UNCHANGED <<pidfile, daemon, sigterm, cliVars, fsVars, plugins, loadCount,
                 queue, proc, stopReq, nextMention, notes, enq, deq, calls, loads>>

\* ------------------------------------------------- the mention thread

\* Queue.get(): the oldest item
QueueGetLifo(q) == [item |-> q[Len(q)], rest |-> SubSeq(q, 1, Len(q) - 1)]

QueueGet(q) == [item |-> Head(q), rest |-> Tail(q)]

\* a faulty loop that hands every item, the sentinel too, to _process_mention
ProcGetAny(d) ==
  /\ daemon[d] = "alive"
  /\ proc[d].pc = "get"
  /\ queue[d] # << >>
  /\ LET g == QueueGet(queue[d]) IN
       /\ queue' = [queue EXCEPT ![d] = g.rest]
       /\ proc' = [proc EXCEPT ![d] = [pc |-> "dispatch", m |-> g.item, i |-> 1]]
       /\ deq' = [deq EXCEPT ![d] = Append(@, g.item)]
       /\ calls' = [calls EXCEPT ![d] = << >>]
  /\ UNCHANGED <<pidfile, daemon, sigterm, mainPc, cliVars, fsVars, plugins,
                 loadCount, streamPc, stopReq, nextMention, notes, enq, loads>>

\* _process_mentions, lines 261-265: one turn of the loop up to the call of
\* _process_mention; queue.get() blocks on an empty queue
ProcGet(d) ==
  /\ daemon[d] = "alive"
  /\ proc[d].pc = "get"
  /\ IF ~is_running_attr
     THEN /\ proc' = [proc EXCEPT ![d].pc = "ended"]
          /\ UNCHANGED <<queue, deq, calls>>
     ELSE /\ queue[d] # << >>
          /\ LET g == QueueGet(queue[d]) IN
               /\ queue' = [queue EXCEPT ![d] = g.rest]
               /\ IF g.item = Sentinel
                  THEN /\ proc' = [proc EXCEPT ![d].pc = "ended"]
                       /\ UNCHANGED <<deq, calls>>
                  ELSE /\ proc' = [proc EXCEPT ![d] = [pc |-> "dispatch", m |-> g.item, i |-> 1]]
                       /\ deq' = [deq EXCEPT ![d] = Append(@, g.item)]
                       /\ calls' = [calls EXCEPT ![d] = << >>]
  /\ UNCHANGED <<pidfile, daemon, sigterm, mainPc, cliVars, fsVars, plugins,
                 loadCount, streamPc, stopReq, nextMention, notes, enq, loads>>

\* what one _process_mention_with_plugin call can come to, lines 284-296:
\*   "ok"       process_mention returned
\*   "neterr"   process_mention raised MastodonNetworkError
\*   "err"      process_mention raised another exception
\*   "skipped"  is_available was false, the plugin was not invoked
\*   "availerr" reading is_available raised, the plugin was not invoked
\* the plain attribute is read as it is; the property asks the client
PluginOutcomes(p) ==
  IF p.kind = "attr"
  THEN (IF p.avail THEN {"ok", "neterr", "err"} ELSE {"skipped"})
  ELSE {"ok", "neterr", "err", "skipped", "availerr"}

Invoked == {"ok", "neterr", "err"}
Failed == {"neterr", "err"}

\* line 291, `plugin.is_available = False`: a plain attribute is set, a
\* property without setter raises AttributeError inside the except clause
SetUnavailable(p) ==
  IF p.kind = "attr"
  THEN [raised |-> FALSE, plugin |-> [p EXCEPT !.avail = FALSE]]
  ELSE [raised |-> TRUE, plugin |-> p]

\* _process_mention_with_plugin for outcome res: [raised, plugin]
ProcessWithPlugin(p, res) ==
  IF res = "neterr" THEN SetUnavailable(p) ELSE [raised |-> FALSE, plugin |-> p]

\* _process_mention, lines 274-275: the next plugin of self.plugins
ProcPlugin(d) ==
  /\ daemon[d] = "alive"
  /\ proc[d].pc = "dispatch"
  /\ proc[d].i <= Len(plugins[d])
  /\ LET i == proc[d].i
         p == plugins[d][i]
     IN \E res \in PluginOutcomes(p) :
          LET r == ProcessWithPlugin(p, res) IN
            /\ calls' = [calls EXCEPT ![d] =
                 Append(@, [m |-> proc[d].m, i |-> i, gen |-> p.gen,
                            file |-> p.file, res |-> res])]
            /\ plugins' = [plugins EXCEPT ![d][i] = r.plugin]
            /\ proc' = IF r.raised
                       THEN [proc EXCEPT ![d].pc = "crashed"]
                       ELSE [proc EXCEPT ![d].i = i + 1]
  /\ UNCHANGED <<pidfile, daemon, sigterm, mainPc, cliVars, fsVars, loadCount,
                 queue, streamPc, stopReq, nextMention, notes, enq, deq, loads>>

\* a faulty end of _process_mention that leaves out the reload
ProcNoReload(d) ==
  /\ daemon[d] = "alive"
  /\ proc[d].pc = "dispatch"
  /\ proc[d].i > Len(plugins[d])
  /\ proc' = [proc EXCEPT ![d].pc = "get"]
  /\ UNCHANGED <<pidfile, daemon, sigterm, mainPc, cliVars, fsVars, plugins,
                 loadCount, queue, streamPc, stopReq, nextMention, notes, enq,
                 deq, calls, loads>>

\* a faulty reload whose result is not assigned to self.plugins
ProcReloadStale(d) ==
  /\ daemon[d] = "alive"
  /\ proc[d].pc = "dispatch"
  /\ proc[d].i > Len(plugins[d])
  /\ LET res == load_plugins(dir, loadCount[d] + 1) IN
       /\ loadCount' = [loadCount EXCEPT ![d] = @ + 1]
       /\ loads' = [loads EXCEPT ![d] = Append(@, LoadEntry(dir, res))]
       /\ proc' = [proc EXCEPT ![d].pc = IF res.raised THEN "crashed" ELSE "get"]
  /\ UNCHANGED <<pidfile, daemon, sigterm, mainPc, cliVars, fsVars, queue,
                 streamPc, stopReq, nextMention, notes, enq, deq, calls, plugins>>

\* _process_mention, line 278: the reload after the last plugin; an exception
\* of load_plugins leaves _process_mentions and ends the thread
ProcReload(d) ==
  /\ daemon[d] = "alive"
  /\ proc[d].pc = "dispatch"
  /\ proc[d].i > Len(plugins[d])
  /\ LET res == load_plugins(dir, loadCount[d] + 1) IN
       /\ loadCount' = [loadCount EXCEPT ![d] = @ + 1]
       /\ loads' = [loads EXCEPT ![d] = Append(@, LoadEntry(dir, res))]
       /\ IF res.raised
          THEN /\ proc' = [proc EXCEPT ![d].pc = "crashed"]
               /\ plugins' = plugins
          ELSE /\ proc' = [proc EXCEPT ![d].pc = "get"]
               /\ plugins' = [plugins EXCEPT ![d] = res.plugins]
  /\ UNCHANGED <<pidfile, daemon, sigterm, mainPc, cliVars, fsVars, queue,
                 streamPc, stopReq, nextMention, notes, enq, deq, calls>>

\* -------------------------------------------------- the stream thread

\* _stream_mentions_from_listener, lines 233-235: the loop test and the call
\* of client.stream_user
StreamConnect(d) ==
  /\ daemon[d] = "alive"
  /\ streamPc[d] = "connecting"
  /\ streamPc' = [streamPc EXCEPT ![d] = IF is_running_attr THEN "streaming" ELSE "ended"]
  /\ UNCHANGED <<pidfile, daemon, sigterm, mainPc, cliVars, fsVars, plugins,
                 loadCount, queue, proc, stopReq, nextMention, notes, enq, deq,
                 calls, loads>>

\* a faulty stream thread that goes on enqueuing after its loop has ended
StreamEventAfterEnd(d) ==
  /\ daemon[d] = "alive"
  /\ streamPc[d] \in {"streaming", "ended"}
  /\ nextMention <= MaxMentions
  /\ nextMention' = nextMention + 1
  /\ queue' = [queue EXCEPT ![d] = Append(@, nextMention)]
  /\ enq' = [enq EXCEPT ![d] = Append(@, nextMention)]
  /\ UNCHANGED <<pidfile, daemon, sigterm, mainPc, cliVars, fsVars, plugins,
                 loadCount, proc, streamPc, stopReq, notes, deq, calls, loads>>

\* lines 236, 217-220 and 250-255: the stream yields a mention, which
\* _stream_mentions puts into the queue unless `not self.is_running`
StreamEvent(d) ==
  /\ daemon[d] = "alive"
  /\ streamPc[d] = "streaming"
  /\ nextMention <= MaxMentions
  /\ nextMention' = nextMention + 1
  /\ IF ~is_running_attr
     THEN /\ streamPc' = [streamPc EXCEPT ![d] = "ended"]
          /\ UNCHANGED <<queue, enq>>
     ELSE /\ queue' = [queue EXCEPT ![d] = Append(@, nextMention)]
          /\ enq' = [enq EXCEPT ![d] = Append(@, nextMention)]
          /\ streamPc' = streamPc
  /\ UNCHANGED <<pidfile, daemon, sigterm, mainPc, cliVars, fsVars, plugins,
                 loadCount, proc, stopReq, notes, deq, calls, loads>>

\* lines 237-240: MastodonNetworkError, the thread sleeps 10 seconds
StreamNetErr(d) ==
  /\ daemon[d] = "alive"
  /\ streamPc[d] = "streaming"
  /\ streamPc' = [streamPc EXCEPT ![d] = "backoff"]
  /\ UNCHANGED <<pidfile, daemon, sigterm, mainPc, cliVars, fsVars, plugins,
                 loadCount, queue, proc, stopReq, nextMention, notes, enq, deq,
                 calls, loads>>

\* a faulty handler that leaves the loop after the sleep
StreamGiveUp(d) ==
  /\ daemon[d] = "alive"
  /\ streamPc[d] = "backoff"
  /\ streamPc' = [streamPc EXCEPT ![d] = "ended"]
  /\ UNCHANGED <<pidfile, daemon, sigterm, mainPc, cliVars, fsVars, plugins,
                 loadCount, queue, proc, stopReq, nextMention, notes, enq, deq,
                 calls, loads>>

\* line 241: `continue` after the sleep
StreamBackoff(d) ==
  /\ daemon[d] = "alive"
  /\ streamPc[d] = "backoff"
  /\ streamPc' = [streamPc EXCEPT ![d] = "connecting"]
  /\ UNCHANGED <<pidfile, daemon, sigterm, mainPc, cliVars, fsVars, plugins,
                 loadCount, queue, proc, stopReq, nextMention, notes, enq, deq,
                 calls, loads>>

\* line 235: the iteration over client.stream_user ends without an
\* exception (the connection was closed); the while loop goes round
StreamClosed(d) ==
  /\ daemon[d] = "alive"
  /\ streamPc[d] = "streaming"
  /\ streamPc' = [streamPc EXCEPT ![d] = "connecting"]
  /\ UNCHANGED <<pidfile, daemon, sigterm, mainPc, cliVars, fsVars, plugins,
                 loadCount, queue, proc, stopReq, nextMention, notes, enq, deq,
                 calls, loads>>

\* a faulty handler that notifies and then connects again
StreamFatalRetry(d) ==
  /\ daemon[d] = "alive"
  /\ streamPc[d] = "streaming"
  /\ \E r \in AppriseResults :
       /\ notes' = [notes EXCEPT ![d] = Append(@, SendRecord("stream_error", r))]
       /\ streamPc' = [streamPc EXCEPT ![d] = "connecting"]
  /\ UNCHANGED <<pidfile, daemon, sigterm, mainPc, cliVars, fsVars, plugins,
                 loadCount, queue, proc, stopReq, nextMention, enq, deq, calls,
                 loads>>

\* lines 242-246: any other exception: the notification is sent and the loop
\* left; a NotifierError of send leaves the thread uncaught
StreamFatal(d) ==
  /\ daemon[d] = "alive"
  /\ streamPc[d] = "streaming"
  /\ \E r \in AppriseResults :
       /\ notes' = [notes EXCEPT ![d] = Append(@, SendRecord("stream_error", r))]
       /\ streamPc' = [streamPc EXCEPT ![d] =
                         IF NotifierSend(r) = "ok" THEN "ended" ELSE "crashed"]
  /\ UNCHANGED <<pidfile, daemon, sigterm, mainPc, cliVars, fsVars, plugins,
                 loadCount, queue, proc, stopReq, nextMention, enq, deq, calls,
                 loads>>

\* ---------------------------------------------- _stop in the daemon

\* _stop is called on the daemon's main thread after start() returned.  The
\* daemon itself never registers _stop for a signal (see Deliver), so this
\* action stands for a direct call of the method; line 303 is the
\* is_running() test
StopCall(d) ==
  /\ daemon[d] = "alive"
  /\ mainPc[d] = "started"
  /\ pidfile' = is_running.pidfile
  /\ mainPc' = [mainPc EXCEPT ![d] = IF is_running.ret THEN "stop_notify1"
                                     ELSE "stop_notrunning"]
  /\ UNCHANGED <<daemon, sigterm, cliVars, fsVars, pipeVars>>

\* a Notifier.send of _stop: on success the main thread goes on to `next`, a
\* NotifierError leaves _stop
StopSend(d, msg, next) ==
  \E r \in AppriseResults :
    /\ notes' = [notes EXCEPT ![d] = Append(@, SendRecord(msg, r))]
    /\ mainPc' = [mainPc EXCEPT ![d] =
                    IF NotifierSend(r) = "ok" THEN next ELSE "stop_raised"]

\* lines 305-307
StopNotify1(d) ==
  /\ daemon[d] = "alive"
  /\ mainPc[d] = "stop_notify1"
  /\ StopSend(d, "stopping", "stop_put")
  /\ UNCHANGED <<pidfile, daemon, sigterm, cliVars, fsVars, plugins, loadCount,
                 queue, proc, streamPc, stopReq, nextMention, enq, deq, calls,
                 loads>>

\* line 310: mention_queue.put(None)
StopPut(d) ==
  /\ daemon[d] = "alive"
  /\ mainPc[d] = "stop_put"
  /\ queue' = [queue EXCEPT ![d] = Append(@, Sentinel)]
  /\ enq' = [enq EXCEPT ![d] = Append(@, Sentinel)]
  /\ mainPc' = [mainPc EXCEPT ![d] = "stop_joinproc"]
  /\ UNCHANGED <<pidfile, daemon, sigterm, cliVars, fsVars, plugins, loadCount,
                 proc, streamPc, stopReq, nextMention, notes, deq, calls, loads>>

\* a faulty _stop that does not wait for the mention thread
StopNoJoinProc(d) ==
  /\ daemon[d] = "alive"
  /\ mainPc[d] = "stop_joinproc"
  /\ mainPc' = [mainPc EXCEPT ![d] = "stop_streamstop"]
  /\ UNCHANGED <<pidfile, daemon, sigterm, cliVars, fsVars, pipeVars>>

\* line 311: mention_thread.join() returns once the thread has ended
StopJoinProc(d) ==
  /\ daemon[d] = "alive"
  /\ mainPc[d] = "stop_joinproc"
  /\ ProcTerminated(d)
  /\ mainPc' = [mainPc EXCEPT ![d] = "stop_streamstop"]
  /\ UNCHANGED <<pidfile, daemon, sigterm, cliVars, fsVars, pipeVars>>

\* lines 314-315: client.stream_stop()
StopStream(d) ==
  /\ daemon[d] = "alive"
  /\ mainPc[d] = "stop_streamstop"
  /\ stopReq' = [stopReq EXCEPT ![d] = TRUE]
  /\ mainPc' = [mainPc EXCEPT ![d] = "stop_joinstream"]
  /\ UNCHANGED <<pidfile, daemon, sigterm, cliVars, fsVars, plugins, loadCount,
                 queue, proc, streamPc, nextMention, notes, enq, deq, calls,
                 loads>>

\* line 316: stream_thread.join()
StopJoinStream(d) ==
  /\ daemon[d] = "alive"
  /\ mainPc[d] = "stop_joinstream"
  /\ StreamTerminated(d)
  /\ mainPc' = [mainPc EXCEPT ![d] = "stop_notify2"]
  /\ UNCHANGED <<pidfile, daemon, sigterm, cliVars, fsVars, pipeVars>>

\* lines 318-320
StopNotify2(d) ==
  /\ daemon[d] = "alive"
  /\ mainPc[d] = "stop_notify2"
  /\ StopSend(d, "stopped", "stop_rmpid")
  /\ UNCHANGED <<pidfile, daemon, sigterm, cliVars, fsVars, plugins, loadCount,
                 queue, proc, streamPc, stopReq, nextMention, enq, deq, calls,
                 loads>>

\* line 322: _remove_pidfile()
StopRmPid(d) ==
  /\ daemon[d] = "alive"
  /\ mainPc[d] = "stop_rmpid"
  /\ pidfile' = << >>
  /\ mainPc' = [mainPc EXCEPT ![d] = "stop_returned"]
  /\ UNCHANGED <<daemon, sigterm, cliVars, fsVars, pipeVars>>

\* the main thread has nothing left to run
MainDone(d) ==
  mainPc[d] \in {"started", "stop_notrunning", "stop_returned", "stop_raised"}

\* the interpreter exits once the main thread is done and both threads have
\* ended; the atexit handler (line 195) removes the PID file
DaemonExit(d) ==
  /\ daemon[d] = "alive"
  /\ MainDone(d)
  /\ ProcTerminated(d)
  /\ StreamTerminated(d)
  /\ daemon' = [daemon EXCEPT ![d] = "exited"]
  /\ pidfile' = << >>
  /\ UNCHANGED <<sigterm, mainPc, cliVars, fsVars, pipeVars>>

\* -------------------------------------------------------- environment

\* files of the plugin folder are added, removed or changed
EditPlugins ==
  /\ edits < MaxEdits
  /\ edits' = edits + 1
  /\ dir' \in Dirs \ {dir}
  /\ UNCHANGED <<pidfile, daemon, sigterm, mainPc, cliVars, pipeVars>>

\* ------------------------------------------------------ specifications

DaemonStep(d) ==
  \/ StartWritePid(d) \/ StartLoad(d) \/ StartProc(d) \/ StartStream(d)
  \/ ProcGet(d) \/ ProcPlugin(d) \/ ProcReload(d)
  \/ StreamConnect(d) \/ StreamEvent(d) \/ StreamNetErr(d) \/ StreamBackoff(d)
  \/ StreamClosed(d) \/ StreamFatal(d)
  \/ StopCall(d) \/ StopNotify1(d) \/ StopPut(d) \/ StopJoinProc(d)
  \/ StopStream(d) \/ StopJoinStream(d) \/ StopNotify2(d) \/ StopRmPid(d)
  \/ DaemonExit(d) \/ SigTerm(d)

\* one `start` command and the daemon it forks, with its whole pipeline
Next ==
  \/ InvokeStart(1) \/ CliStartCheck(1) \/ CliFork(1)
  \/ \E d \in Daemons : DaemonStep(d)
  \/ EditPlugins

Spec == Init /\ [][Next]_vars

\* the command line: any commands, overlapping in time, the daemons they fork
\* and external SIGTERMs; the threads of the daemons are started and then
\* left to themselves, the plugin folder is not changed
CliStep(c) ==
  \/ InvokeStart(c) \/ InvokeStop(c) \/ InvokeStatus(c) \/ InvokeRestart(c)
  \/ CliStartCheck(c) \/ CliFork(c) \/ CliStop(c) \/ CliRestartSleep(c)
  \/ CliStatus(c)

LifecycleStep(d) ==
  \/ StartWritePid(d) \/ StartLoad(d) \/ StartProc(d) \/ StartStream(d)
  \/ SigTerm(d)

NextLifecycle ==
  \/ \E c \in Cmds : CliStep(c)
  \/ \E d \in Daemons : LifecycleStep(d)

SpecLifecycle == Init /\ [][NextLifecycle]_vars

\* =============================================================== claims

IsPrefix(a, b) == Len(a) <= Len(b) /\ SubSeq(b, 1, Len(a)) = a

\* the mentions of a queue history, the sentinel left out
MentionsOf(q) == SelectSeq(q, LAMBDA x : x # Sentinel)

\* the position of mention m in sequence q (0 when absent)
PosIn(q, m) == IF \E k \in 1..Len(q) : q[k] = m
               THEN CHOOSE k \in 1..Len(q) : q[k] = m
               ELSE 0

\* the mention thread died in _process_mention_with_plugin
PluginCrash(d) == proc[d].pc = "crashed" /\ proc[d].i <= Len(plugins[d])

\* the files of folder dr that hold a loadable plugin, in glob order
LoadableFiles(dr) ==
  SelectSeq([k \in 1..Len(dr) |-> k], LAMBDA k : dr[k] \in {"prop", "attr"})

\* C1: the mentions are dispatched in the order in which they were enqueued,
\* one after the other, and the plugin calls made for a mention are those of
\* the list the load returned, one by one in the order of that list
C1_Ordering ==
  \A d \in Daemons :
    /\ IsPrefix(deq[d], MentionsOf(enq[d]))
    /\ \A k \in 1..Len(calls[d]) :
         LET c == calls[d][k] IN
           /\ deq[d] # << >>
           /\ c.m = deq[d][Len(deq[d])]
           /\ c.i = k
           /\ c.gen \in 1..Len(loads[d])
           /\ ~loads[d][c.gen].raised
           /\ k \in 1..Len(loads[d][c.gen].files)
           /\ c.file = loads[d][c.gen].files[k]
           /\ k > 1 => calls[d][k - 1].gen = c.gen

\* C1 witness: the second of two mentions has been dispatched to both plugins
\* of the list, after the first
C1_Witness ==
  \E d \in Daemons :
    /\ Len(deq[d]) = 2
    /\ deq[d] = MentionsOf(enq[d])
    /\ Len(calls[d]) = 2
    /\ calls[d][1].res \in Invoked
    /\ calls[d][2].res \in Invoked

\* C2: a plugin that fails in process_mention does not stop the mention
\* thread: the call that failed is never the last thing the thread did
C2_PluginIsolation ==
  \A d \in Daemons :
    \A k \in 1..Len(calls[d]) :
      calls[d][k].res \in Failed => ~PluginCrash(d)

\* C3: when _stop has run on a running daemon and returned, the sentinel was
\* enqueued, the mention thread consumed it and ended, and the stream thread
\* has ended
C3_GracefulShutdown ==
  \A d \in Daemons :
    mainPc[d] = "stop_returned" =>
      /\ PosIn(enq[d], Sentinel) > 0
      /\ proc[d].pc = "ended"
      /\ PosIn(queue[d], Sentinel) = 0
      /\ StreamTerminated(d)

\* C4: a daemon ended by SIGTERM has run the shutdown sequence: _stop
\* returned and the PID file no longer records the daemon
C4_SignalInvokesStop ==
  \A d \in Daemons :
    daemon[d] = "killed" => (mainPc[d] = "stop_returned" /\ pidfile # <<d>>)

\* C5: once stream_stop() was called, the stream thread leaves the stream
\* only to end: no reconnect, no backoff, no error, no notification
C5_StreamStopsQuietly ==
  [][\A d \in Daemons :
       (stopReq[d] /\ streamPc[d] = "streaming" /\ streamPc'[d] # "streaming")
         => (streamPc'[d] = "ended" /\ notes'[d] = notes[d])]_vars

\* C6: a start() that finds the PID file of a live daemon ends without a
\* fork, a load or a thread start, and leaves the PID file as it was
C6_IdempotentStart ==
  [][\A c \in Cmds :
       (cli[c].pc = "start" /\ cli'[c] # cli[c]
          /\ pidfile # << >> /\ pidfile[1] \in Alive)
         => /\ cli'[c].pc = "done"
            /\ cli'[c].out = "already"
            /\ cli'[c].child = 0
            /\ pidfile' = pidfile
            /\ daemon' = daemon
            /\ loadCount' = loadCount
            /\ proc' = proc
            /\ streamPc' = streamPc]_vars

\* C6 witness: a start command found a started daemon and returned, the PID
\* file still records that daemon
C6_Witness ==
  \E c \in Cmds, d \in Daemons :
    /\ cli[c].out = "already"
    /\ daemon[d] = "alive"
    /\ mainPc[d] = "started"
    /\ pidfile = <<d>>

\* the daemon instances: live processes running both worker threads
Instances ==
  {d \in Daemons : daemon[d] = "alive" /\ proc[d].pc # "unstarted"
                                       /\ streamPc[d] # "unstarted"}

\* C7: there is at most one daemon instance at any time
C7_SingleInstance == Cardinality(Instances) <= 1

C9_LoadIsolation ==
  \A d \in Daemons :
    \A k \in 1..Len(loads[d]) :
      /\ ~loads[d][k].raised
      /\ loads[d][k].files = LoadableFiles(loads[d][k].dir)

\* C10: after process_mention raised the network error, the availability
\* flag of that plugin instance is false for as long as the instance is in
\* the active set
C10_SoftDisable ==
  \A d \in Daemons :
    \A k \in 1..Len(calls[d]) :
      (calls[d][k].res = "neterr" /\ calls[d][k].gen = loadCount[d])
        => ~plugins[d][calls[d][k].i].avail

\* the mentions for which _process_mention has gone past the plugin loop and
\* made its reload call
Dispatched(d) ==
  Len(deq[d]) - (IF proc[d].pc = "dispatch" \/ PluginCrash(d) THEN 1 ELSE 0)

\* C11: the number of load_plugins calls of a daemon is one (the load of
\* start) plus the number of mentions dispatched to the end; the reload of a
\* mention is made before the next mention is dequeued
C11_ReloadCadence ==
  \A d \in Daemons :
    /\ loadCount[d] = Len(loads[d])
    /\ proc[d].pc # "unstarted" => loadCount[d] = 1 + Dispatched(d)
    /\ proc[d].pc = "unstarted" => (loadCount[d] <= 1 /\ deq[d] = << >>)

\* C11 witness: two mentions were dispatched to the end, three loads made
C11_Witness ==
  \E d \in Daemons :
    /\ Len(deq[d]) = 2
    /\ proc[d].pc = "get"
    /\ Len(calls[d]) = 2
    /\ loadCount[d] = 3

\* the notifications of the stream thread's `except Exception` branch
ErrNotes(ns) == SelectSeq(ns, LAMBDA n : n.msg = "stream_error")

\* C12: the stream thread sends its error notification only from Streaming,
\* one per step, and is Terminated right after it; it leaves Streaming for
\* Terminated only with that notification; once Terminated it stays there
C12_FatalStreamError ==
  [][\A d \in Daemons :
       /\ ErrNotes(notes'[d]) # ErrNotes(notes[d]) =>
            /\ streamPc[d] = "streaming"
            /\ StreamTerminated(d)'
            /\ Len(ErrNotes(notes'[d])) = Len(ErrNotes(notes[d])) + 1
       /\ (~StreamTerminated(d) /\ StreamTerminated(d)') =>
            /\ streamPc[d] = "streaming"
            /\ Len(ErrNotes(notes'[d])) = 1
       /\ StreamTerminated(d) =>
            /\ streamPc'[d] = streamPc[d]
            /\ ErrNotes(notes'[d]) = ErrNotes(notes[d])]_vars

\* C12 witness: the thread has ended after a fatal error in a live daemon,
\* one notification was sent for it
C12_Witness ==
  \E d \in Daemons :
    /\ daemon[d] = "alive"
    /\ streamPc[d] = "ended"
    /\ Len(ErrNotes(notes[d])) = 1

\* C13: a network error takes the stream thread from Streaming to the
\* backoff and the backoff to Connecting, whatever happened before; neither
\* step sends a notification and the backoff never leads to Terminated
C13_NetworkBackoff ==
  [][\A d \in Daemons :
       /\ (streamPc[d] = "streaming" /\ streamPc'[d] = "backoff") =>
            notes'[d] = notes[d]
       /\ (streamPc[d] = "backoff" /\ streamPc'[d] # "backoff") =>
            /\ streamPc'[d] = "connecting"
            /\ notes'[d] = notes[d]
       /\ streamPc'[d] = "backoff" => streamPc[d] \in {"streaming", "backoff"}]_vars

\* C13 witness: the thread is in the backoff of a live daemon after it had
\* streamed a mention, no notification was sent
C13_Witness ==
  \E d \in Daemons :
    /\ daemon[d] = "alive"
    /\ streamPc[d] = "backoff"
    /\ MentionsOf(enq[d]) # << >>
    /\ notes[d] = << >>

\* C14: the step that takes the sentinel from the queue ends the mention
\* thread and invokes and reloads nothing; after the thread has ended no
\* plugin is invoked, nothing is dequeued and nothing is loaded
C14_SentinelStops ==
  [][\A d \in Daemons :
       /\ (queue[d] # << >> /\ Len(queue'[d]) < Len(queue[d])
             /\ Head(queue[d]) = Sentinel) =>
            /\ proc'[d].pc = "ended"
            /\ calls'[d] = calls[d]
            /\ deq'[d] = deq[d]
            /\ loadCount'[d] = loadCount[d]
            /\ plugins'[d] = plugins[d]
       /\ proc[d].pc = "ended" =>
            /\ proc'[d] = proc[d]
            /\ calls'[d] = calls[d]
            /\ deq'[d] = deq[d]
            /\ loadCount'[d] = loadCount[d]
            /\ Len(queue'[d]) >= Len(queue[d])]_vars

\* C14 witness: the thread has ended on the sentinel and a mention enqueued
\* after it waits in the queue
C14_Witness ==
  \E d \in Daemons :
    /\ daemon[d] = "alive"
    /\ proc[d].pc = "ended"
    /\ queue[d] # << >>
    /\ Head(queue[d]) \in Mentions

\* the notifications that _stop sends
StopMsgs == {"stopping", "stopped"}

\* C15: a send of _stop that raised NotifierError does not leave _stop as an
\* exception: _stop is not left at the failed send, with the steps after it
\* not run
C15_StopSurvivesSendFailure ==
  \A d \in Daemons :
    (\E k \in 1..Len(notes[d]) :
        notes[d][k].msg \in StopMsgs /\ notes[d][k].out # "ok")
      => mainPc[d] # "stop_raised"

\* C16: send raises the unconfigured error exactly when Apprise.notify
\* returned None, the delivery-failed error holding the message exactly when
\* it returned False, and nothing when it returned True; no message is sent
\* a second time, whatever the first send came to
C16_NotifierContract ==
  \A d \in Daemons :
    /\ \A k \in 1..Len(notes[d]) :
         LET n == notes[d][k] IN
           /\ n.res \in AppriseResults
           /\ n.res = "None" <=> n.out = "unconfigured"
           /\ n.res = "False" <=> (n.out = "failed" /\ n.carried = n.msg)
           /\ n.res = "True" <=> (n.out = "ok" /\ n.carried = "")
    /\ \A j, k \in 1..Len(notes[d]) : notes[d][j].msg = notes[d][k].msg => j = k

\* C16 witness: one daemon has seen all three outcomes of send
C16_Witness ==
  \E d \in Daemons :
    /\ Len(notes[d]) = 3
    /\ {notes[d][k].out : k \in 1..3} = {"unconfigured", "failed", "ok"}

\* notification msg was sent by daemon d and its send raised nothing
SentOk(d, msg) ==
  \E k \in 1..Len(notes[d]) : notes[d][k].msg = msg /\ notes[d][k].out = "ok"

Sent(d, msg) == \E k \in 1..Len(notes[d]) : notes[d][k].msg = msg

SentinelPut(d) == \E k \in 1..Len(enq[d]) : enq[d][k] = Sentinel

\* C17: every step of _stop finds the steps before it complete: the sentinel
\* is enqueued after the first notification was sent, the stream stop is
\* requested after the mention thread has terminated, the second
\* notification is sent after the stream thread has terminated, and the PID
\* file is there until both notifications are out and _stop removes it
C17_StopOrder ==
  \A d \in Daemons :
    /\ SentinelPut(d) => SentOk(d, "stopping")
    /\ mainPc[d] = "stop_joinproc" => (SentinelPut(d) /\ ~stopReq[d])
    /\ stopReq[d] => (SentinelPut(d) /\ ProcTerminated(d))
    /\ mainPc[d] = "stop_joinstream" => (stopReq[d] /\ ~Sent(d, "stopped"))
    /\ Sent(d, "stopped") => (stopReq[d] /\ StreamTerminated(d))
    /\ mainPc[d] \in {"stop_rmpid", "stop_returned"} => SentOk(d, "stopped")
    /\ (daemon[d] = "alive" /\ mainPc[d] \in
          {"stop_notify1", "stop_put", "stop_joinproc", "stop_streamstop",
           "stop_joinstream", "stop_notify2", "stop_rmpid", "stop_raised"})
         => pidfile # << >>
    /\ (daemon[d] = "alive" /\ mainPc[d] = "stop_returned") => pidfile = << >>

\* C17 witness: _stop has returned in a daemon whose mention thread ended on
\* the sentinel and whose stream thread ended without an exception
C17_Witness ==
  \E d \in Daemons :
    /\ daemon[d] = "alive"
    /\ mainPc[d] = "stop_returned"
    /\ proc[d].pc = "ended"
    /\ streamPc[d] = "ended"

\* C18: once the stream thread has terminated, no mention is put into the
\* queue
C18_TerminatedStreamIsSilent ==
  [][\A d \in Daemons :
       StreamTerminated(d) => MentionsOf(enq'[d]) = MentionsOf(enq[d])]_vars

\* C18 witness: the stream thread has terminated while the mention thread
\* waits at the empty queue and mentions are still to come
C18_Witness ==
  \E d \in Daemons :
    /\ daemon[d] = "alive"
    /\ StreamTerminated(d)
    /\ proc[d].pc = "get"
    /\ queue[d] = << >>
    /\ nextMention <= MaxMentions

\* mention m went through the whole plugin loop of _process_mention
FullyDispatched(d, m) ==
  /\ \E j \in 1..Len(deq[d]) : deq[d][j] = m
  /\ ~(proc[d].m = m /\ (proc[d].pc = "dispatch" \/ PluginCrash(d)))

\* C19: when _stop has returned, every mention that was enqueued before the
\* sentinel has been dispatched to all plugins
C19_NoMentionLost ==
  \A d \in Daemons :
    mainPc[d] = "stop_returned" =>
      \A k \in 1..Len(enq[d]) :
        (enq[d][k] # Sentinel /\ k < PosIn(enq[d], Sentinel))
          => FullyDispatched(d, enq[d][k])

\* C20: the plugin instances of one load are invoked for one mention only,
\* each at most once: every call of the current mention went to an instance
\* of the load made for that mention.  The plugins a dispatch has not yet
\* reached, and all plugins between two dispatches, have the availability
\* flag they were loaded with; a plain attribute is never found false
C20_FreshSnapshot ==
  \A d \in Daemons :
    /\ \A k \in 1..Len(calls[d]) :
         /\ calls[d][k].gen = Len(deq[d])
         /\ calls[d][k].m = deq[d][Len(deq[d])]
         /\ calls[d][k].i = k
    /\ \A i \in 1..Len(plugins[d]) :
         /\ proc[d].pc # "crashed" => plugins[d][i].gen = loadCount[d]
         /\ (proc[d].pc \in {"unstarted", "get", "ended"}
               \/ (proc[d].pc = "dispatch" /\ i >= proc[d].i))
              => plugins[d][i].avail
         /\ ~plugins[d][i].avail =>
              (i <= Len(calls[d]) /\ calls[d][i].res = "neterr")

\* C20 witness: a plugin that was marked unavailable during the last mention
\* is available again in the set that waits for the next mention
C20_Witness ==
  \E d \in Daemons :
    /\ proc[d].pc = "get"
    /\ queue[d] # << >>
    /\ Head(queue[d]) \in Mentions
    /\ \E k \in 1..Len(calls[d]) :
         /\ calls[d][k].res = "neterr"
         /\ calls[d][k].gen < loadCount[d]
         /\ k <= Len(plugins[d])
         /\ plugins[d][k].file = calls[d][k].file
         /\ plugins[d][k].avail

====
